---- MODULE Spec2Model ----
(***************************************************************************)
(* Model of GenericPrompt (src/prompt/_generic_prompt.ts): the generic     *)
(* render / read / validate / submit loop of the prompt widgets.           *)
(*                                                                         *)
(* JavaScript values are encoded as strings: "undefined", "null",          *)
(* "b:true", "b:false", "n:0" and "s:<text>" for the string <text>.        *)
(* One step of the model is one stretch of code between two awaits; the    *)
(* variable out holds the terminal operations and calls made by that step, *)
(* in program order.                                                       *)
(***************************************************************************)
EXTENDS Integers, Sequences, FiniteSets, TLC

VARIABLES
  settings,       \* this.settings, built by getDefaultSettings
  injectedValue,  \* GenericPrompt.injectedValue (static, process-wide)
  value,          \* this.#value
  lastError,      \* this.#lastError
  isFirstRun,     \* this.#isFirstRun
  rawMode,        \* raw mode of settings.reader, as left by setRaw
  pc,             \* position of the running prompt() call
  events,         \* decoded key events of the read cycle not yet dispatched
  attempt,        \* the last run of #validateValue since the last render()
  rendered,       \* what the last step rendered, if it was a render()
  out,            \* operations performed by the last step, in order
  outcome         \* how the last prompt() call ended

vars == <<settings, injectedValue, value, lastError, isFirstRun, rawMode, pc,
          events, attempt, rendered, out, outcome>>

-----------------------------------------------------------------------------
(* JavaScript values *)

Undefined == "undefined"

\* The marker for a call that throws (or a promise that rejects).
Throw == "throw!"

\* !v
IsFalsy(v) == v \in {Undefined, "null", "b:false", "n:0", "s:"}

IsTruthy(v) == ~IsFalsy(v)

\* typeof v === "string"
IsString(v) == v \in {"s:", "s:a", "s:too short", "s:Invalid answer.",
                      "s:Ann", "s:T", "s:hint"}

\* The raw values getValue() returns and inject() is given.
RawValues == {"s:", "s:a", "n:0", Undefined}

\* The values a caller puts into the injection slot.
InjectValues == RawValues \ {Undefined}

\* The results of settings.validate / validate.
ValidateResults == {"b:true", "b:false", "s:", "s:too short", Throw}

\* The results of settings.transform / transform.
TransformResults == {"s:T", Undefined, Throw}

-----------------------------------------------------------------------------
(* Key events and key bindings *)

\* KeyCode events as parse() produces them: a name, the raw sequence, ctrl.
KeyReturn == [name |-> "return", sequence |-> "^M", ctrl |-> FALSE]

KeyEnter == [name |-> "enter", sequence |-> "^J", ctrl |-> FALSE]

KeyY == [name |-> "y", sequence |-> "y", ctrl |-> FALSE]

KeyCtrlC == [name |-> "c", sequence |-> "^C", ctrl |-> TRUE]

\* The event decoded from a NUL byte of the untouched read buffer.
KeyNul == [name |-> "backtick", sequence |-> "^@", ctrl |-> TRUE]

KeyEvents == {KeyReturn, KeyEnter, KeyY, KeyCtrlC}

\* The submit bindings of getDefaultSettings.
DefaultSubmitKeys == <<"enter", "return">>

\* options.keys: absent, an object without submit, or one with a submit list.
KeysOptions ==
  { [kind |-> "undefined", submit |-> <<>>],
    [kind |-> "submit", submit |-> <<"y", "c", "^M">>] }

\* The text of message(): prefix, bold message and default annotation.
MainMessages == { << <<6, 19>> >> }

\* The options a caller passes to a prompt, with a message among messages.
PromptOptions(messages) ==
  [ message   : messages,
    default   : {Undefined, "s:Ann"},
    validate  : BOOLEAN,           \* a custom validate handler is given
    transform : BOOLEAN,           \* a custom transform handler is given
    hint      : {Undefined, "s:hint"},
    keys      : KeysOptions,
    reader    : {"tty", "pipe"},   \* whether Deno.isatty(reader.rid) holds
    writer    : {Undefined, "alt"} ]

\* A variant that merges an overriding submit list into the default one.
getDefaultSettingsMerged(options) ==
  [ message   |-> options.message,
    default   |-> options.default,
    validate  |-> options.validate,
    transform |-> options.transform,
    hint      |-> options.hint,
    reader    |-> options.reader,
    writer    |-> IF options.writer # Undefined THEN options.writer ELSE "stdout",
    tty       |-> IF options.writer # Undefined THEN options.writer ELSE "stdout",
    options   |-> [keys |-> options.keys],
    keys      |-> [submit |-> DefaultSubmitKeys \o options.keys.submit] ]

\* getDefaultSettings: the spread of options.keys replaces keys.submit.
getDefaultSettings(options) ==
  [ message   |-> options.message,
    default   |-> options.default,
    validate  |-> options.validate,
    transform |-> options.transform,
    hint      |-> options.hint,
    reader    |-> options.reader,
    writer    |-> IF options.writer # Undefined THEN options.writer ELSE "stdout",
    tty       |-> IF options.writer # Undefined THEN options.writer ELSE "stdout",
    options   |-> [keys |-> options.keys],
    keys      |-> [submit |-> IF options.keys.kind = "submit"
                              THEN options.keys.submit
                              ELSE DefaultSubmitKeys] ]

\* keyNames.indexOf(x) !== -1
Includes(keyNames, x) == \E i \in DOMAIN keyNames : keyNames[i] = x

\* isKey(keys, "submit", event)
isKey(keys, event) ==
  \/ event.name # Undefined /\ Includes(keys.submit, event.name)
  \/ event.sequence # Undefined /\ Includes(keys.submit, event.sequence)

-----------------------------------------------------------------------------
(* Operations recorded in out *)

Op(o, t, a) == [op |-> o, to |-> t, arg |-> a]

\* A call of one of the handlers of the widget or of the caller.
Call(name) == Op("call", "", name)

\* clear(): settings.tty.cursorLeft.eraseDown()
Clear(s) == <<Op("cursorLeft", s.tty, ""), Op("eraseDown", s.tty, "")>>

\* settings.tty.cursorShow()
CursorShow(s) == <<Op("cursorShow", s.tty, "")>>

HasOp(ops, o) == \E i \in DOMAIN ops : ops[i].op = o

HasCall(ops, name) == \E i \in DOMAIN ops : ops[i] = Call(name)

-----------------------------------------------------------------------------
(* #validateValue and #transformValue *)

\* The record of the prompt before any run of #validateValue.
NoAttempt ==
  [src |-> "none", raw |-> Undefined, calls |-> <<>>, validation |-> "none",
   result |-> "none", bypass |-> FALSE, thrown |-> FALSE]

\* #transformValue: the custom handler if set, otherwise the widget's; t is
\* what the handler returns for the value.
TransformValue(s, t) ==
  IF s.transform THEN [name |-> "settings.transform", result |-> t]
                 ELSE [name |-> "transform", result |-> t]

\* #validateValue after the default short-circuit, where v is what the
\* validator returns and tr what the transform returns; this variant takes a
\* string result for an accepted value.
RunValidationStringAccepts(s, v, tr) ==
  LET vname == IF s.validate THEN "settings.validate" ELSE "validate"
      t == TransformValue(s, tr)
  IN  IF v = Throw
      THEN [value |-> Undefined, lastError |-> Undefined, calls |-> <<vname>>,
            validation |-> v, result |-> "none", bypass |-> FALSE,
            thrown |-> TRUE]
      ELSE IF v = "b:false"
      THEN [value |-> Undefined, lastError |-> "s:Invalid answer.",
            calls |-> <<vname>>, validation |-> v, result |-> "none",
            bypass |-> FALSE, thrown |-> FALSE]
      ELSE IF t.result = Throw
      THEN [value |-> Undefined, lastError |-> Undefined,
            calls |-> <<vname, t.name>>, validation |-> v, result |-> Throw,
            bypass |-> FALSE, thrown |-> TRUE]
      ELSE [value |-> t.result, lastError |-> Undefined,
            calls |-> <<vname, t.name>>, validation |-> v,
            result |-> t.result, bypass |-> FALSE, thrown |-> FALSE]

\* #validateValue after the default short-circuit (lines 373-387), where v is
\* what the validator returns and tr what the transform returns: the value
\* and error it leaves, the handlers it calls and whether it throws.
RunValidation(s, v, tr) ==
  LET vname == IF s.validate THEN "settings.validate" ELSE "validate"
      t == TransformValue(s, tr)
  IN  IF v = Throw
      THEN [value |-> Undefined, lastError |-> Undefined, calls |-> <<vname>>,
            validation |-> v, result |-> "none", bypass |-> FALSE,
            thrown |-> TRUE]
      ELSE IF v = "b:false"
      THEN [value |-> Undefined, lastError |-> "s:Invalid answer.",
            calls |-> <<vname>>, validation |-> v, result |-> "none",
            bypass |-> FALSE, thrown |-> FALSE]
      ELSE IF IsString(v)
      THEN [value |-> Undefined, lastError |-> v, calls |-> <<vname>>,
            validation |-> v, result |-> "none", bypass |-> FALSE,
            thrown |-> FALSE]
      ELSE IF t.result = Throw
      THEN [value |-> Undefined, lastError |-> Undefined,
            calls |-> <<vname, t.name>>, validation |-> v, result |-> Throw,
            bypass |-> FALSE, thrown |-> TRUE]
      ELSE [value |-> t.result, lastError |-> Undefined,
            calls |-> <<vname, t.name>>, validation |-> v,
            result |-> t.result, bypass |-> FALSE, thrown |-> FALSE]

\* A variant of #validateValue without the default short-circuit.
ValidateValueNoDefault(s, le, raw, v, tr) == RunValidation(s, v, tr)

\* #validateValue(raw) in a session with settings s and error le: a falsy raw
\* value takes the configured default and leaves the error as it is.
ValidateValue(s, le, raw, v, tr) ==
  IF IsFalsy(raw) /\ s.default # Undefined
  THEN [value |-> s.default, lastError |-> le, calls |-> <<>>,
        validation |-> "none", result |-> "none", bypass |-> TRUE,
        thrown |-> FALSE]
  ELSE RunValidation(s, v, tr)

\* The attempt record of a run r of #validateValue on raw, started from src.
AttemptOf(r, src, raw) ==
  [src |-> src, raw |-> raw, calls |-> r.calls, validation |-> r.validation,
   result |-> r.result, bypass |-> r.bypass, thrown |-> r.thrown]

\* The operations of a run r of #validateValue.
ValidateOps(r) ==
  <<Op("validateValue", "", "")>>
    \o [i \in 1..Len(r.calls) |-> Call(r.calls[i])]

-----------------------------------------------------------------------------
(* error(), hint(), footer() and the line count of render() *)

\* error(): the error line, or nothing when #lastError is falsy.
Error(le) == IF IsTruthy(le) THEN <<"error", le>> ELSE <<>>

\* hint(): the hint line, or nothing when settings.hint is falsy.
Hint(s) == IF IsTruthy(s.hint) THEN <<"hint", s.hint>> ELSE <<>>

\* A variant that prefers the hint to the error.
FooterHintFirst(s, le) == IF Hint(s) # <<>> THEN Hint(s) ELSE Error(le)

\* footer(): this.error() ?? this.hint()
Footer(s, le) == IF Error(le) # <<>> THEN Error(le) ELSE Hint(s)

\* A line of text is <<p, e>>: p printable characters and e characters of
\* ANSI escape sequences.  A text is the sequence of its lines (the text
\* split at "\n"); <<>> stands for undefined, <<EmptyLine>> for "".
EmptyLine == <<0, 0>>

\* The number of characters of the string encoded as v.
StrLen(v) == Len(v) - 2

\* The text of a footer: a glyph, a blank and the message, styled with two
\* (error) or three (hint) colour functions of 9 or 10 escape characters each.
FooterText(f) ==
  IF f = <<>> THEN <<>>
  ELSE IF f[1] = "error" THEN << <<2 + StrLen(f[2]), 19>> >>
  ELSE << <<2 + StrLen(f[2]), 29>> >>

\* Boolean(text), as used by result.filter(Boolean)
TextTruthy(text) == text # <<>> /\ text # <<EmptyLine>>

\* result.filter(Boolean).join("\n").split("\n")
ContentLines(parts) ==
  LET RECURSIVE Join(_)
      Join(ps) == IF ps = <<>> THEN <<>>
                  ELSE (IF TextTruthy(Head(ps)) THEN Head(ps) ELSE <<>>)
                         \o Join(Tail(ps))
      joined == Join(parts)
  IN  IF joined = <<>> THEN <<EmptyLine>> ELSE joined

\* stripColor(line).length
StripColorLength(line) == line[1]

\* getColumns() returns a number of columns or null; NoColumns is null.
NoColumns == -1

\* A variant that rounds the quotient down.
CeilDivFloor(length, columns) == length \div columns

\* Math.ceil(length / columns) for length >= 0 and columns > 0
CeilDiv(length, columns) == (length + columns - 1) \div columns

\* length > columns ? Math.ceil(length / columns) : 1
WrappedLines(length, columns) ==
  IF length > columns THEN CeilDiv(length, columns) ELSE 1

\* linesCount of render(): the wrapped lines when columns is truthy, the
\* logical lines otherwise.
LinesCount(lines, columns) ==
  LET RECURSIVE Reduce(_, _)
      Reduce(prev, ls) ==
        IF ls = <<>> THEN prev
        ELSE Reduce(prev + WrappedLines(StripColorLength(Head(ls)), columns),
                    Tail(ls))
  IN  IF columns # NoColumns /\ columns # 0
      THEN Reduce(0, lines)
      ELSE Len(lines)

\* The record of a step that is not a render().
NoRender ==
  [lines |-> <<>>, columns |-> NoColumns, linesCount |-> 0, footer |-> <<>>,
   erased |-> FALSE, first |-> FALSE]

-----------------------------------------------------------------------------
(* The input source *)

\* The size of the read buffer of #readChar.
BufferSize == 8

\* The most key events decoded from the bytes of one read.
MaxEvents == 2

\* The sequences of at most n elements of S.
SeqUpTo(S, n) == UNION { [1..k -> S] : k \in 0..n }

\* What reader.read(buffer) does: it rejects, reports end-of-stream (null),
\* or fills the buffer with the bytes of some keys (none: zero bytes read).
ReadResults ==
  { [kind |-> "reject", keys |-> <<>>], [kind |-> "eof", keys |-> <<>>] }
    \cup { [kind |-> "bytes", keys |-> ks] : ks \in SeqUpTo(KeyEvents, MaxEvents) }

\* parse(data) of the key decoder: the keys of the bytes read; the untouched
\* buffer holds BufferSize NUL bytes, one key each.
Parse(data) ==
  IF data.kind = "eof" THEN [i \in 1..BufferSize |-> KeyNul] ELSE data.keys

\* #readKey: data.length ? parse(data) : [], where #readChar returns the whole
\* buffer at end-of-stream and the bytes read otherwise.
ReadKey(data) ==
  IF data.kind = "eof" \/ data.keys # <<>> THEN Parse(data) ELSE <<>>

-----------------------------------------------------------------------------
(* The state machine *)

NoOutcome == [kind |-> "none", val |-> <<>>]

\* An exception that leaves prompt() without the finally block.
ThrowOpsNoShow(s) == <<Op("throw", "", "")>>

\* How prompt() ends by an exception: the finally block shows the cursor.
ThrowOps(s) == <<Op("throw", "", "")>> \o CursorShow(s)

\* The branch of handleEvent for ctrl+c, without the cursor restore.
InterruptOpsNoShow(s) == Clear(s) \o <<Op("exit", "", "130")>>

\* The branch of handleEvent for ctrl+c.
InterruptOps(s) == Clear(s) \o CursorShow(s) \o <<Op("exit", "", "130")>>

\* A read() that reports a value whether or not one is set.
ReadReturnAlways(val) == "success"

\* Where read() returns to in #execute: on to the success sequence when a
\* value is set, back to the top of #execute otherwise.
ReadReturn(val) == IF val # Undefined THEN "success" ELSE "execute"

Init ==
  /\ \E o \in PromptOptions(MainMessages) : settings = getDefaultSettings(o)
  /\ injectedValue = Undefined
  /\ value = Undefined
  /\ lastError = Undefined
  /\ isFirstRun = TRUE
  /\ rawMode = FALSE
  /\ pc = "idle"
  /\ events = <<>>
  /\ attempt = NoAttempt
  /\ rendered = NoRender
  /\ out = <<>>
  /\ outcome = NoOutcome

\* GenericPrompt.inject(v), called while no prompt is running; a prompt that
\* has ended is not used again and its fields are those of a new one.
Inject(v) ==
  /\ pc = "idle"
  /\ injectedValue' = v
  /\ value' = Undefined
  /\ lastError' = Undefined
  /\ isFirstRun' = TRUE
  /\ events' = <<>>
  /\ attempt' = NoAttempt
  /\ rendered' = NoRender
  /\ out' = <<>>
  /\ outcome' = NoOutcome
  /\ UNCHANGED <<settings, rawMode, pc>>

\* A prompt is constructed from the options and prompt() is called on it.
Prompt ==
  /\ pc = "idle"
  /\ settings' = settings
  /\ value' = Undefined
  /\ lastError' = Undefined
  /\ isFirstRun' = TRUE
  /\ pc' = "execute"
  /\ events' = <<>>
  /\ attempt' = NoAttempt
  /\ rendered' = NoRender
  /\ out' = <<>>
  /\ outcome' = NoOutcome
  /\ UNCHANGED <<injectedValue, rawMode>>

\* #execute, first statement: an injected value with an error pending throws.
ExecuteThrow ==
  /\ pc = "execute"
  /\ injectedValue # Undefined /\ IsTruthy(lastError)
  /\ pc' = "idle"
  /\ outcome' = [kind |-> "thrown", val |-> Error(lastError)]
  /\ out' = ThrowOps(settings)
  /\ rendered' = NoRender
  /\ UNCHANGED <<settings, injectedValue, value, lastError, isFirstRun,
                 rawMode, events, attempt>>

\* render(): the previous block is erased when this is not the first render
\* or an error is pending.
ShouldClearErrorOnly(first, le) == IsTruthy(le)

ShouldClear(first, le) == ~first \/ IsTruthy(le)

\* #execute: render() throws (message(), body(), footer() or the write) and
\* the exception leaves prompt() through its finally block.
RenderThrow ==
  /\ pc = "execute"
  /\ ~(injectedValue # Undefined /\ IsTruthy(lastError))
  /\ pc' = "idle"
  /\ outcome' = [kind |-> "thrown", val |-> <<"render">>]
  /\ out' = ThrowOps(settings)
  /\ rendered' = NoRender
  /\ UNCHANGED <<settings, injectedValue, value, lastError, isFirstRun,
                 rawMode, events, attempt>>

\* #execute: render() with the widget's body and the terminal's columns, then
\* the reset of #lastError.
Render(body, columns) ==
  /\ pc = "execute"
  /\ ~(injectedValue # Undefined /\ IsTruthy(lastError))
  /\ LET footer == Footer(settings, lastError)
         lines == ContentLines(<<settings.message, body, FooterText(footer)>>)
         linesCount == LinesCount(lines, columns)
         y == linesCount - 0 - 1
         erase == ShouldClear(isFirstRun, lastError)
     IN  /\ rendered' = [lines |-> lines, columns |-> columns,
                         linesCount |-> linesCount, footer |-> footer,
                         erased |-> erase, first |-> isFirstRun]
         /\ out' = (IF erase THEN Clear(settings) ELSE <<>>)
                     \o <<Op("write", "stdout", "content")>>
                     \o (IF y # 0 THEN <<Op("cursorUp", settings.tty, "y")>>
                                  ELSE <<>>)
                     \o <<Op("cursorTo", settings.tty, "x")>>
  /\ isFirstRun' = FALSE
  /\ lastError' = Undefined
  /\ pc' = "read"
  /\ attempt' = NoAttempt
  /\ UNCHANGED <<settings, injectedValue, value, rawMode, events, outcome>>

\* The effect of a run r of #validateValue on raw started from src, after
\* which control is at next unless the run throws.
Validated(r, src, raw, pre, next) ==
  /\ value' = r.value
  /\ lastError' = r.lastError
  /\ attempt' = AttemptOf(r, src, raw)
  /\ IF r.thrown
     THEN /\ pc' = "idle"
          /\ outcome' = [kind |-> "thrown", val |-> <<"handler">>]
          /\ out' = pre \o ValidateOps(r) \o ThrowOps(settings)
     ELSE /\ pc' = next
          /\ outcome' = outcome
          /\ out' = pre \o ValidateOps(r)

\* The results of the handlers a run r does not call are not drawn.
Unused(r, v, t) ==
  /\ r.calls = <<>> => v = "b:true"
  /\ Len(r.calls) < 2 => t = Undefined

\* read() with an injected value: the value is validated.
ReadInjected(v, t) ==
  /\ pc = "read"
  /\ injectedValue # Undefined
  /\ LET r == ValidateValue(settings, lastError, injectedValue, v, t)
     IN  /\ Unused(r, v, t)
         /\ Validated(r, "inject", injectedValue, <<>>, ReadReturn(r.value))
  /\ events' = events
  /\ rendered' = NoRender
  /\ UNCHANGED <<settings, injectedValue, isFirstRun, rawMode>>

\* #readChar up to the await of reader.read: raw mode is set on a terminal.
ReadCharBegin ==
  /\ pc = "read"
  /\ injectedValue = Undefined
  /\ rawMode' = IF settings.reader = "tty" THEN TRUE ELSE rawMode
  /\ out' = (IF settings.reader = "tty"
             THEN <<Op("setRaw", "reader", "true")>> ELSE <<>>)
              \o <<Op("read", "reader", "")>>
  /\ pc' = "readChar"
  /\ rendered' = NoRender
  /\ UNCHANGED <<settings, injectedValue, value, lastError, isFirstRun,
                 events, attempt, outcome>>

\* reader.read rejects: the exception leaves #readChar, read() and prompt().
ReadCharReject ==
  /\ pc = "readChar"
  /\ pc' = "idle"
  /\ outcome' = [kind |-> "thrown", val |-> <<"read">>]
  /\ out' = ThrowOps(settings)
  /\ rendered' = NoRender
  /\ UNCHANGED <<settings, injectedValue, value, lastError, isFirstRun,
                 rawMode, events, attempt>>

\* read() after #readKey: no event ends the cycle and read() returns false,
\* which is also where a cycle without the early return would end up.
AfterReadNoEarlyReturn(evs) ==
  IF evs = <<>> THEN "success" ELSE "handleEvent"

AfterRead(evs) == IF evs = <<>> THEN "execute" ELSE "handleEvent"

\* reader.read resolves: raw mode is reset, the bytes are decoded and read()
\* returns false when there is no event.
ReadCharEnd(data) ==
  /\ pc = "readChar"
  /\ data.kind # "reject"
  /\ rawMode' = IF settings.reader = "tty" THEN FALSE ELSE rawMode
  /\ events' = ReadKey(data)
  /\ out' = (IF settings.reader = "tty"
             THEN <<Op("setRaw", "reader", "false")>> ELSE <<>>)
              \o (IF data.kind = "eof" \/ data.keys # <<>>
                  THEN <<Op("parse", "", data.kind)>> ELSE <<>>)
  /\ pc' = AfterRead(ReadKey(data))
  /\ rendered' = NoRender
  /\ UNCHANGED <<settings, injectedValue, value, lastError, isFirstRun,
                 attempt, outcome>>

\* Whether handleEvent takes its submit branch for the event.
IsSubmit(s, event) == isKey(s.keys, event)

\* A loop of read() that stops at the first event that resolved a value.
AfterEventStopOnValue(rest, val) ==
  IF rest # <<>> /\ val = Undefined THEN "handleEvent" ELSE ReadReturn(val)

\* Where the loop of read() goes after an event: on to the next event, or
\* out of read() after the last one.
AfterEvent(rest, val) == IF rest # <<>> THEN "handleEvent" ELSE ReadReturn(val)

\* handleEvent for ctrl+c: the process exits with status 130.
HandleInterrupt ==
  /\ pc = "handleEvent"
  /\ Head(events).name = "c" /\ Head(events).ctrl
  /\ out' = <<Op("handleEvent", "", "")>>
              \o InterruptOps(settings)
  /\ pc' = "exited"
  /\ outcome' = [kind |-> "exited", val |-> <<"130">>]
  /\ events' = Tail(events)
  /\ rendered' = NoRender
  /\ UNCHANGED <<settings, injectedValue, value, lastError, isFirstRun,
                 rawMode, attempt>>

\* handleEvent for a submit key: submit() validates getValue(), which is raw.
HandleSubmit(raw, v, t) ==
  /\ pc = "handleEvent"
  /\ ~(Head(events).name = "c" /\ Head(events).ctrl)
  /\ IsSubmit(settings, Head(events))
  /\ LET r == ValidateValue(settings, lastError, raw, v, t)
     IN  /\ Unused(r, v, t)
         /\ Validated(r, "submit", raw,
                     <<Op("handleEvent", "", ""),
                       Call("submit"), Call("getValue")>>,
                     AfterEvent(Tail(events), r.value))
  /\ events' = Tail(events)
  /\ rendered' = NoRender
  /\ UNCHANGED <<settings, injectedValue, isFirstRun, rawMode>>

\* handleEvent for any other key: nothing happens at this layer.
HandleOther ==
  /\ pc = "handleEvent"
  /\ ~(Head(events).name = "c" /\ Head(events).ctrl)
  /\ ~IsSubmit(settings, Head(events))
  /\ out' = <<Op("handleEvent", "", "")>>
  /\ events' = Tail(events)
  /\ pc' = AfterEvent(Tail(events), value)
  /\ rendered' = NoRender
  /\ UNCHANGED <<settings, injectedValue, value, lastError, isFirstRun,
                 rawMode, attempt, outcome>>

\* #execute after read() returned true: the success sequence, or the
\* internal error when no value is set.
ExecuteSuccess ==
  /\ pc = "success"
  /\ pc' = "idle"
  /\ IF value = Undefined
     THEN /\ outcome' = [kind |-> "thrown", val |-> <<"internal error">>]
          /\ out' = ThrowOps(settings)
          /\ injectedValue' = injectedValue
     ELSE /\ outcome' = [kind |-> "returned", val |-> <<value>>]
          /\ out' = Clear(settings)
                      \o <<Op("write", settings.writer, "success")>>
                      \o <<Op("injectedValue", "", Undefined)>>
                      \o CursorShow(settings)
                      \o <<Op("return", "", value)>>
                      \o CursorShow(settings)
          /\ injectedValue' = Undefined
  /\ rendered' = NoRender
  /\ UNCHANGED <<settings, value, lastError, isFirstRun, rawMode, events,
                 attempt>>

\* The body() texts and terminal widths of the main specification.
MainBodies == { <<>> }

MainColumns == { NoColumns }

Next ==
  \/ \E v \in InjectValues : Inject(v)
  \/ Prompt
  \/ ExecuteThrow
  \/ RenderThrow
  \/ \E b \in MainBodies, c \in MainColumns : Render(b, c)
  \/ \E v \in ValidateResults, t \in TransformResults : ReadInjected(v, t)
  \/ ReadCharBegin
  \/ ReadCharReject
  \/ \E d \in ReadResults : ReadCharEnd(d)
  \/ HandleInterrupt
  \/ \E raw \in RawValues, v \in ValidateResults, t \in TransformResults :
        HandleSubmit(raw, v, t)
  \/ HandleOther
  \/ ExecuteSuccess

Spec == Init /\ [][Next]_vars

-----------------------------------------------------------------------------
(* The specification of render(): texts and terminal widths are drawn from  *)
(* wider sets, the keys from none.                                          *)

\* The longest printable line, the most lines of a message, the widest
\* terminal.
MaxLineLen == 3

MaxLines == 2

MaxColumns == 2

\* Lines with and without escape sequences.
RenderLines == { <<p, e>> : p \in 0..MaxLineLen, e \in {0, 19} }

RenderMessages == SeqUpTo(RenderLines, MaxLines) \ { <<>> }

\* body(): undefined, or a text of one line.
RenderBodies == { <<>> } \cup { <<l>> : l \in RenderLines }

\* getColumns(): null, or the columns of the console.
RenderColumns == { NoColumns } \cup 0..MaxColumns

InitRender ==
  /\ \E o \in PromptOptions(RenderMessages) :
        /\ o.default = Undefined /\ ~o.validate /\ ~o.transform
        /\ o.keys.kind = "undefined" /\ o.reader = "pipe"
        /\ o.writer = Undefined
        /\ settings = getDefaultSettings(o)
  /\ injectedValue = Undefined
  /\ value = Undefined
  /\ lastError = Undefined
  /\ isFirstRun = TRUE
  /\ rawMode = FALSE
  /\ pc = "idle"
  /\ events = <<>>
  /\ attempt = NoAttempt
  /\ rendered = NoRender
  /\ out = <<>>
  /\ outcome = NoOutcome

NextRender ==
  \/ Prompt
  \/ \E b \in RenderBodies, c \in RenderColumns : Render(b, c)
  \/ ReadCharBegin
  \/ ReadCharEnd([kind |-> "bytes", keys |-> <<>>])

SpecRender == InitRender /\ [][NextRender]_vars

-----------------------------------------------------------------------------
(* Properties *)

\* The last step ran #validateValue.
Attempted == HasOp(out, "validateValue")

Validators == {"settings.validate", "validate"}

Transforms == {"settings.transform", "transform"}

\* The number of calls in ops of the handlers in names.
Calls(ops, names) ==
  Cardinality({ i \in DOMAIN ops : ops[i].op = "call" /\ ops[i].arg \in names })

\* A validator result that fails the validation, and the message it sets.
Failing(v) == v = "b:false" \/ IsString(v)

FailMessage(v) == IF v = "b:false" THEN "s:Invalid answer." ELSE v

IsInterrupt(event) == event.name = "c" /\ event.ctrl

\* C1: a validation attempt, from submit() or from an injected value, on an
\* empty or absent raw value with a default configured leaves the default as
\* the resolved value and calls no validator and no transform.
C1_DefaultShortCircuit ==
  (Attempted /\ attempt.raw \in {"s:", Undefined, "null"}
     /\ settings.default # Undefined)
    => /\ value = settings.default
       /\ Calls(out, Validators \cup Transforms) = 0

C1_Witness ==
  /\ Attempted /\ attempt.src = "submit" /\ attempt.raw = "s:"
  /\ settings.validate /\ settings.default = "s:Ann" /\ value = "s:Ann"

\* C2: after every validation attempt that returns, exactly one of the error
\* and the resolved value is set.
C2_ExactlyOne ==
  (Attempted /\ ~attempt.thrown)
    => ((lastError # Undefined) # (value # Undefined))

\* C3: when the injected value failed validation (the validator returned
\* false or a string) and the slot still holds it, the next iteration of
\* #execute throws and does not render.
C3_ReplayThrows ==
  [][(pc = "execute" /\ injectedValue # Undefined /\ attempt.src = "inject"
        /\ Failing(attempt.validation))
       => (outcome'.kind = "thrown" /\ rendered' = NoRender)]_vars

\* C4: when prompt() has returned a value or thrown the replay error, the
\* injection slot is empty.
C4_SlotEmptied ==
  (pc = "idle"
     /\ \/ outcome.kind = "returned"
        \/ outcome.kind = "thrown" /\ outcome.val # <<>>
             /\ outcome.val[1] = "error")
    => injectedValue = Undefined

\* C5: raw mode is on only while a read is awaited: it is off when events
\* are handled, validators run, a render happens and after prompt() ended.
C5_RawModeScoped == rawMode => pc = "readChar"

\* C6: a dispatched ctrl+c erases the render, then shows the cursor, then
\* exits with status 130, validates and writes nothing, and no step follows.
C6_Interrupt ==
  [][/\ (pc = "handleEvent" /\ IsInterrupt(Head(events)))
          => /\ pc' = "exited"
             /\ outcome' = [kind |-> "exited", val |-> <<"130">>]
             /\ \E i, j, k \in DOMAIN out' :
                  /\ i < j /\ j < k /\ k = Len(out')
                  /\ out'[i].op = "eraseDown"
                  /\ out'[j].op = "cursorShow"
                  /\ out'[k] = Op("exit", "", "130")
             /\ ~HasOp(out', "validateValue")
             /\ ~HasOp(out', "write")
     /\ pc = "exited" => UNCHANGED vars]_vars

C6_Witness == pc = "exited" /\ attempt.src = "submit" /\ out # <<>>

\* Whether the claim C7 lets the event submit: its name or sequence is in the
\* caller's keys.submit, or, without one, its name is enter or return.
BoundToSubmit(event) ==
  IF settings.options.keys.kind = "submit"
  THEN \/ Includes(settings.options.keys.submit, event.name)
       \/ Includes(settings.options.keys.submit, event.sequence)
  ELSE event.name \in {"enter", "return"}

\* C7 as stated: every key event submits exactly when it is bound to submit.
C7_SubmitIffBound ==
  [][pc = "handleEvent"
       => (HasCall(out', "submit") <=> BoundToSubmit(Head(events)))]_vars

\* C7: a key event other than ctrl+c submits exactly when it is bound to
\* submit; an overriding keys.submit replaces the default bindings.
C7_SubmitIffBoundUnlessInterrupt ==
  [][(pc = "handleEvent" /\ ~IsInterrupt(Head(events)))
       => (HasCall(out', "submit") <=> BoundToSubmit(Head(events)))]_vars

C7_Witness ==
  /\ settings.options.keys.kind = "submit"
  /\ HasCall(out, "submit")
  /\ events # <<>> /\ Head(events) = KeyEnter

\* C8: a validation attempt not taken by the default short-circuit calls
\* exactly one validator, the custom one if given; false sets the generic
\* error and a string sets itself as the error, both without a value and
\* without a transform; any other result calls exactly one transform, the
\* custom one if given, and stores its result with no error.
C8_TriState ==
  (Attempted /\ ~attempt.bypass)
    => LET v == attempt.validation
           vn == IF settings.validate THEN "settings.validate" ELSE "validate"
           tn == IF settings.transform THEN "settings.transform"
                                       ELSE "transform"
       IN  /\ Calls(out, Validators) = 1 /\ HasCall(out, vn)
           /\ v = "b:false"
                => /\ lastError = "s:Invalid answer." /\ value = Undefined
                   /\ Calls(out, Transforms) = 0
           /\ IsString(v)
                => /\ lastError = v /\ value = Undefined
                   /\ Calls(out, Transforms) = 0
           /\ v = Throw => Calls(out, Transforms) = 0
           /\ (~Failing(v) /\ v # Throw)
                => /\ Calls(out, Transforms) = 1 /\ HasCall(out, tn)
                   /\ ~attempt.thrown
                        => value = attempt.result /\ lastError = Undefined

C8_Witness ==
  /\ Attempted /\ attempt.validation = "s:too short"
  /\ lastError = "s:too short" /\ value = Undefined

\* The resolved value is set by a validation attempt only.
ValueSetByValidation ==
  (value = Undefined /\ value' # Undefined) => HasOp(out', "validateValue")

\* C9 as stated: a submit that fails validation with m leaves the error m
\* and no value, prompt() goes on, and the next step is a render with m in
\* the footer (a render that throws apart).
C9_FailureThenRender ==
  [][/\ (HasOp(out', "validateValue") /\ attempt'.src = "submit"
           /\ Failing(attempt'.validation))
          => /\ pc' = "execute"
             /\ lastError' = FailMessage(attempt'.validation)
             /\ value' = Undefined
     /\ (pc = "execute" /\ attempt.src = "submit"
           /\ Failing(attempt.validation) /\ outcome'.kind # "thrown")
          => rendered'.footer = <<"error", FailMessage(attempt.validation)>>
     /\ ValueSetByValidation]_vars

\* C9: a submit that fails validation with m leaves the error m and no
\* value and prompt() goes on; when it is the last validation attempt of its
\* read cycle and the cycle ends, the next step is a render whose footer is
\* the error line of m if m is not empty, and the hint or nothing if it is
\* (a render that throws ends prompt() instead).
C9_Recoverable ==
  [][/\ (HasOp(out', "validateValue") /\ attempt'.src = "submit"
           /\ Failing(attempt'.validation))
          => /\ outcome'.kind = "none"
             /\ pc' = IF events' = <<>> THEN "execute" ELSE "handleEvent"
             /\ lastError' = FailMessage(attempt'.validation)
             /\ value' = Undefined
     /\ (pc = "execute" /\ attempt.src = "submit"
           /\ Failing(attempt.validation) /\ outcome'.kind # "thrown")
          => /\ lastError = FailMessage(attempt.validation)
             /\ value = Undefined
             /\ pc' = "read"
             /\ rendered'.footer =
                  IF FailMessage(attempt.validation) # "s:"
                  THEN <<"error", FailMessage(attempt.validation)>>
                  ELSE Hint(settings)
     /\ ValueSetByValidation]_vars

C9_Witness ==
  /\ pc = "read" /\ injectedValue = Undefined
  /\ settings.hint # Undefined
  /\ rendered.footer = <<"error", "s:too short">>

\* The visual lines C10 gives a line of printable length L at width W: the
\* least n with n * W >= L, and 1 for an empty line.
VisualLines(L, W) ==
  IF L = 0 THEN 1 ELSE CHOOSE n \in 1..L : n * W >= L /\ (n - 1) * W < L

RECURSIVE VisualLinesSum(_, _)
VisualLinesSum(lines, W) ==
  IF lines = <<>> THEN 0
  ELSE VisualLines(Head(lines)[1], W) + VisualLinesSum(Tail(lines), W)

\* C10: with a width W the line count of a render is the sum of ceil(L / W)
\* over its lines, 1 for an empty line; with no width it is the number of
\* logical lines.
C10_WrappedLineCount ==
  rendered # NoRender
    => /\ rendered.columns >= 1
            => rendered.linesCount
                 = VisualLinesSum(rendered.lines, rendered.columns)
       /\ rendered.columns = NoColumns
            => rendered.linesCount = Len(rendered.lines)

C10_Witness ==
  /\ rendered # NoRender /\ rendered.columns = 2
  /\ \E i \in DOMAIN rendered.lines : rendered.lines[i][1] = 3
  /\ \E i \in DOMAIN rendered.lines : rendered.lines[i][1] = 0
  /\ rendered.linesCount > Len(rendered.lines)

-----------------------------------------------------------------------------
(* C11: an empty read cycle *)

\* A step in which reader.read resolved and no event was decoded.
EmptyRead == pc = "readChar" /\ pc' # "idle" /\ events' = <<>>

\* C11: when a terminal read yields no decoded event, read() reports no
\* value: no error and no value is set, nothing is thrown, no event handler
\* and no validator runs, and the loop goes on with a render that is followed
\* by another read of the terminal.
C11_EmptyReadRetries ==
  [][/\ EmptyRead
        => /\ pc' = "execute"
           /\ value' = Undefined /\ lastError' = Undefined
           /\ outcome'.kind = "none"
           /\ attempt' = NoAttempt
           /\ ~HasOp(out', "handleEvent") /\ ~HasOp(out', "validateValue")
           /\ ~HasOp(out', "throw")
           /\ Calls(out', {"submit", "getValue"} \cup Validators
                                \cup Transforms) = 0
     /\ (pc = "execute" /\ injectedValue = Undefined /\ ~isFirstRun
           /\ attempt = NoAttempt /\ outcome'.kind # "thrown")
        => (rendered' # NoRender /\ pc' = "read")
     /\ (pc = "read" /\ injectedValue = Undefined)
        => (pc' = "readChar" /\ HasOp(out', "read"))]_vars

\* An empty read cycle has just ended: control is back at the top of
\* #execute after a render, with no attempt and nothing dispatched.
C11_Witness ==
  /\ pc = "execute" /\ ~isFirstRun /\ injectedValue = Undefined
  /\ attempt = NoAttempt /\ events = <<>>
  /\ ~HasOp(out, "handleEvent") /\ ~HasOp(out, "parse")

-----------------------------------------------------------------------------
(* C12: termination with an injected value *)

\* The steps of a running prompt() that wait for nothing outside the
\* program: the event loop runs each of them once it is enabled.
Running ==
  \/ ExecuteThrow
  \/ RenderThrow
  \/ \E b \in MainBodies, c \in MainColumns : Render(b, c)
  \/ \E v \in ValidateResults, t \in TransformResults : ReadInjected(v, t)
  \/ ReadCharBegin
  \/ HandleInterrupt
  \/ \E raw \in RawValues, v \in ValidateResults, t \in TransformResults :
        HandleSubmit(raw, v, t)
  \/ HandleOther
  \/ ExecuteSuccess

SpecLive == Init /\ [][Next]_vars /\ WF_vars(Running)

\* C12: with an injected value present every prompt() call terminates,
\* whatever the validator and the transform return: it returns or throws.
C12_InjectedTerminates ==
  (pc = "execute" /\ injectedValue # Undefined) ~> (pc = "idle")

-----------------------------------------------------------------------------
(* C13: the alternate writer *)

\* C13: with an alternate writer configured, everything a step emits (the
\* rendered block, the success line, the cursor and erase sequences) goes to
\* that writer and nothing is written to standard output.
C13_AlternateWriterOnly ==
  settings.writer = "alt"
    => \A i \in DOMAIN out : out[i].to # "stdout"

-----------------------------------------------------------------------------
(* C14: the order of renders, reads and the success sequence *)

\* The names of the operations of a step, in the order they were performed.
OpNames(ops) == [i \in DOMAIN ops |-> ops[i].op]

\* read() is running: from its call to its return.
InRead == pc \in {"read", "readChar", "handleEvent"}

\* A read() has returned false in this call and #execute starts over.
ReadGaveNoValue == pc = "execute" /\ ~isFirstRun

\* The step is a render() that wrote the block, or one that threw.
RenderStep ==
  \/ rendered' # NoRender /\ pc' = "read"
  \/ outcome'.kind = "thrown" /\ outcome'.val = <<"render">>

\* The step is the success sequence, in its order, and ends the call.
SuccessStep ==
  /\ OpNames(out') = <<"cursorLeft", "eraseDown", "write", "injectedValue",
                       "cursorShow", "return", "cursorShow">>
  /\ injectedValue' = Undefined
  /\ outcome'.kind = "returned"
  /\ pc' = "idle"

\* What C14 says apart from the step that follows a read without a value:
\* a call starts with a render, a read starts only right after a render, no
\* render happens inside a read, and the success sequence happens only right
\* after a read that produced a value, in its order, and ends the call.
OrderedLoop ==
  /\ (pc = "idle" /\ pc' # "idle") => (pc' = "execute" /\ isFirstRun')
  /\ (pc = "execute" /\ isFirstRun) => RenderStep
  /\ (pc = "read") => (rendered # NoRender /\ rendered' = NoRender)
  /\ (rendered' # NoRender) => (pc = "execute" /\ pc' = "read")
  /\ InRead => pc' \in {"readChar", "handleEvent", "execute", "success",
                         "idle", "exited"}
  /\ (InRead /\ pc' = "idle") => outcome'.kind = "thrown"
  /\ (pc = "success")
       => (value # Undefined /\ rendered = NoRender /\ SuccessStep)
  /\ (outcome'.kind = "returned" /\ pc # "idle") => pc = "success"
  /\ (pc' = "success") => (InRead /\ value' # Undefined)

\* C14 as stated: renders and reads strictly alternate, starting with a
\* render; every read is immediately preceded by a render and a read that
\* produced no value is followed by a render; the success sequence happens at
\* most once, directly after a read that produced a value, in the order
\* clear, write, empty the injection slot, show the cursor, return, and no
\* render or read happens after it.
C14_StrictAlternation ==
  [][OrderedLoop /\ (ReadGaveNoValue => RenderStep)]_vars

\* C14 amended: a read that produced no value is followed by a render unless
\* a value is injected and an error is pending, in which case #execute throws
\* the error and nothing is rendered or read any more.
C14_AlternationUnlessReplay ==
  [][/\ OrderedLoop
     /\ (ReadGaveNoValue /\ ~(injectedValue # Undefined /\ IsTruthy(lastError)))
          => RenderStep
     /\ (ReadGaveNoValue /\ injectedValue # Undefined /\ IsTruthy(lastError))
          => (outcome'.kind = "thrown" /\ pc' = "idle"
                /\ rendered' = NoRender /\ ~HasOp(out', "write"))]_vars

\* A render that follows a read without a value has just been written and
\* the next read is about to start.
C14_Witness ==
  pc = "read" /\ rendered # NoRender /\ ~rendered.first /\ rendered.erased

-----------------------------------------------------------------------------
(* C15: the repaint in place *)

\* The first position of an operation named o in ops, 0 when there is none.
FirstOp(ops, o) ==
  IF HasOp(ops, o)
  THEN CHOOSE i \in DOMAIN ops :
         ops[i].op = o /\ \A j \in 1..(i - 1) : ops[j].op # o
  ELSE 0

\* The step wrote a block with render().
Rendering == rendered' # NoRender

\* C15: render() erases the previous block before it writes exactly when
\* this is not the first render of the session or an error is pending: the
\* first render with no pending error erases nothing, every later render
\* erases before writing, and the first-run flag is true until the first
\* render and false from then on.
C15_ErasesBeforeRepaint ==
  [][/\ Rendering
        => /\ HasOp(out', "eraseDown") <=> (~isFirstRun \/ IsTruthy(lastError))
           /\ HasOp(out', "eraseDown")
                => /\ FirstOp(out', "cursorLeft") < FirstOp(out', "eraseDown")
                   /\ FirstOp(out', "eraseDown") < FirstOp(out', "write")
           /\ HasOp(out', "write")
           /\ isFirstRun' = FALSE
     /\ (Rendering /\ isFirstRun /\ ~IsTruthy(lastError))
          => ~HasOp(out', "eraseDown") /\ ~HasOp(out', "cursorLeft")
     /\ (Rendering /\ ~isFirstRun) => HasOp(out', "eraseDown")
     /\ (pc # "idle" /\ ~isFirstRun) => ~isFirstRun'
     /\ (pc # "idle" /\ isFirstRun /\ ~Rendering) => isFirstRun']_vars

\* A later render of a session has erased the earlier block and written.
C15_Witness ==
  /\ rendered # NoRender /\ ~isFirstRun
  /\ HasOp(out, "eraseDown") /\ HasOp(out, "write")
  /\ FirstOp(out, "eraseDown") < FirstOp(out, "write")

-----------------------------------------------------------------------------
(* C16: end of stream *)

\* C16: when reader.read reports end-of-stream, zero bytes are handed to
\* the key decoder: the decoder is not called on the result of such a read,
\* as it is not called on a read of zero bytes.
C16_EofIsEmptyRead ==
  \A i \in DOMAIN out : out[i].op = "parse" => out[i].arg # "eof"

-----------------------------------------------------------------------------
(* C17: the cursor is shown on every way out *)

\* prompt() has handed control back to its caller, by a return or a throw.
LeftPrompt == pc = "idle" /\ outcome.kind \in {"returned", "thrown"}

\* The operations that belong to rendering and reading.
Activity == {"write", "cursorLeft", "eraseDown", "cursorUp", "cursorTo",
             "read", "setRaw", "parse", "handleEvent", "validateValue", "call"}

\* C17: on every way out of prompt() (the return of the value, the replay
\* throw of an injected value, the internal error, an exception of the
\* validator, the transform, render or read) cursorShow is issued after the
\* last render or read activity and before control is back at the caller.
C17_CursorShownOnExit ==
  LeftPrompt
    => /\ out # <<>>
       /\ <<out[Len(out)]>> = CursorShow(settings)
       /\ \A i \in DOMAIN out : out[i].op \in Activity => i < Len(out)

\* prompt() was left by an exception of a validator or transform.
C17_Witness ==
  /\ LeftPrompt /\ outcome.kind = "thrown" /\ outcome.val = <<"handler">>
  /\ HasOp(out, "validateValue") /\ HasOp(out, "cursorShow")

-----------------------------------------------------------------------------
(* C19: a raw value that is present but falsy *)

\* The raw values that are present and falsy: the number 0 and false.
PresentFalsy == {"n:0", "b:false"}

\* C19: with a default configured, a raw value that is present but falsy
\* (0 or false, typed or injected) is run through the validator and, when
\* accepted, the transform; it is not replaced by the default.
C19_FalsyValueValidated ==
  (Attempted /\ settings.default # Undefined /\ attempt.raw \in PresentFalsy)
    => /\ ~attempt.bypass
       /\ Calls(out, Validators) = 1
       /\ (~attempt.thrown /\ ~Failing(attempt.validation))
            => (Calls(out, Transforms) = 1 /\ value = attempt.result)

-----------------------------------------------------------------------------
(* C18: what prompt() returns *)

\* The raw values that are empty or absent.
EmptyRaw == {"s:", Undefined, "null"}

\* prompt() has returned a value.
Returned == pc = "idle" /\ outcome.kind = "returned"

\* The returned value is the default, taken by the last attempt.
ReturnedDefault == attempt.bypass /\ value = settings.default

\* The returned value is the defined output of the transform for a raw value
\* that the validator accepted.
ReturnedTransformed ==
  /\ ~attempt.bypass /\ ~attempt.thrown
  /\ ~Failing(attempt.validation) /\ attempt.validation # "none"
  /\ attempt.result # Undefined /\ value = attempt.result

\* What C18 says apart from where a returned default comes from: a returned
\* value is never absent, the internal error is never thrown, and a transform
\* that yields undefined makes the loop go on instead of returning.
NeverAbsent ==
  /\ Returned => (value # Undefined /\ outcome.val = <<value>>)
  /\ outcome.val # <<"internal error">>
  /\ (pc = "success") => value # Undefined
  /\ (Attempted /\ ~attempt.bypass /\ ~attempt.thrown
        /\ attempt.result = Undefined)
       => (value = Undefined /\ pc \in {"execute", "handleEvent"})

\* C18: prompt() never returns an absent value: a returned value is either
\* the configured default, taken on an empty raw value, or the defined output
\* of the transform for a raw value whose validator result was neither false
\* nor a string; the internal error is unreachable and a transform yielding
\* undefined makes the loop retry.
C18_ReturnsDefined ==
  /\ NeverAbsent
  /\ Returned
       => \/ ReturnedDefault /\ attempt.raw \in EmptyRaw
          \/ ReturnedTransformed

\* The same without the condition on the raw value of a returned default.
C18_ReturnsDefinedAnyDefault ==
  /\ NeverAbsent
  /\ Returned => (ReturnedDefault \/ ReturnedTransformed)

-----------------------------------------------------------------------------
(* C20: the events of one read cycle *)

\* The step leaves the event loop of read() by an exit of the process or by
\* an exception of a handler.
Cut == pc' \in {"exited", "idle"}

\* What the last validation attempt a of a cycle leaves as the value.
ValueOf(a) ==
  IF a.bypass THEN settings.default
  ELSE IF a.thrown \/ Failing(a.validation) THEN Undefined
  ELSE a.result

\* C20: within one read cycle every decoded key event is dispatched, in
\* decode order, also after an earlier submit has resolved a value, as long
\* as the process has not exited and no handler has thrown; the cycle ends
\* with the outcome of its last validation attempt: a later submit that
\* fails validation discards the value accepted earlier and the loop goes
\* on, and a later ctrl+c still terminates the process.
C20_AllEventsDispatched ==
  [][pc = "handleEvent"
       => /\ events # <<>>
          /\ HasOp(out', "handleEvent")
          /\ events' = Tail(events)
          /\ IsInterrupt(Head(events)) <=> pc' = "exited"
          /\ (~IsInterrupt(Head(events)) /\ IsSubmit(settings, Head(events)))
               <=> HasCall(out', "submit")
          /\ HasCall(out', "submit")
               <=> (HasOp(out', "validateValue") /\ attempt'.src = "submit")
          /\ ~HasCall(out', "submit")
               => (value' = value /\ attempt' = attempt)
          /\ (~Cut /\ events' # <<>>) => pc' = "handleEvent"
          /\ (~Cut /\ events' = <<>>)
               => /\ pc' = IF value' # Undefined THEN "success" ELSE "execute"
                  /\ attempt' # NoAttempt => value' = ValueOf(attempt')
          /\ (value # Undefined /\ HasCall(out', "submit") /\ ~Cut
                /\ ~attempt'.bypass /\ Failing(attempt'.validation))
               => (value' = Undefined /\ lastError' # Undefined
                     /\ pc' # "success")]_vars

\* A submit has resolved a value and a further submit key of the same read
\* cycle is about to be dispatched.
C20_Witness ==
  /\ pc = "handleEvent" /\ value # Undefined /\ attempt.src = "submit"
  /\ events # <<>> /\ IsSubmit(settings, Head(events))

====
